---- MODULE Spec2Model ----
(***************************************************************************)
(* Reconciliation core of the EUA 2 futures scraper: the store reader      *)
(* (load_existing_csv), the writer with its merge (save_to_csv),           *)
(* cleanup_csv, the item normalizer (_parse_data_item) and the driver      *)
(* scrape_eua2.main.                                                       *)
(*                                                                         *)
(* Text is modelled by its shape.  A date text is a record                 *)
(*    [form, y, m, d, w]                                                   *)
(* form "iso"      YYYY-MM-DD            (four, two and two digits)        *)
(*      "isotime"  YYYY-MM-DD 00:00:00                                     *)
(*      "verbose"  Www Mmm DD 00:00:00 YYYY   (w = the weekday written)    *)
(*      "slash"    m/d/YYYY  (m = first component, d = second component)   *)
(*      "embedded" xYYYY-MM-DD  (an ISO date inside other text)            *)
(*      "junk"     text holding no date,  "empty"  the empty string        *)
(*      "list"     a list literal (its items are kept beside it)           *)
(*      "badlist"  text starting with [ that is no literal                 *)
(* The components are the digits written, valid as a date or not.          *)
(* A number is a record [k, r] with 0 <= r < 1000000: its value is         *)
(* k * 1000 + r / 1000 (k thousands and r thousandths), which keeps        *)
(* prices to the thousandth and millisecond timestamps inside 32-bit        *)
(* integers.  A price text is [form, k, r]: form "num"                     *)
(* (float() reads it), "sep" (it has thousands separators), "cur" (it has  *)
(* a currency symbol), "junk", "empty".                                    *)
(***************************************************************************)
EXTENDS Integers, Sequences, FiniteSets, TLC

\* ------------------------------------------------------------------ bounds
MaxRows == 2       \* rows of the initial store file
MaxBatch == 2      \* items of an incoming batch

\* ------------------------------------------------------- program constants
PriceLimit == 1000000      \* the price bound of reader, extractor and writer
MsThresholdK == 10000000   \* 1e10, counted in thousands

\* ---------------------------------------------------------------- calendar
IsLeap(y) == (y % 4 = 0 /\ y % 100 /= 0) \/ y % 400 = 0

DaysIn(y, m) ==
  IF m = 2 THEN (IF IsLeap(y) THEN 29 ELSE 28)
  ELSE IF m \in {4, 6, 9, 11} THEN 30 ELSE 31

\* datetime(y, m, d) succeeds
ValidYMD(y, m, d) ==
  /\ y >= 1 /\ y <= 9999
  /\ m >= 1 /\ m <= 12
  /\ d >= 1 /\ d <= DaysIn(y, m)

NoDate == [ok |-> FALSE, y |-> 0, m |-> 0, d |-> 0]
MkDate(y, m, d) == [ok |-> TRUE, y |-> y, m |-> m, d |-> d]

\* a calendar date as one number, ordered as the calendar is
DateNum(dt) == dt.y * 10000 + dt.m * 100 + dt.d

\* ------------------------------------------------------------------- text
Digits2(n) == << 48 + ((n \div 10) % 10), 48 + (n % 10) >>
Digits4(n) == << 48 + ((n \div 1000) % 10), 48 + ((n \div 100) % 10),
                 48 + ((n \div 10) % 10), 48 + (n % 10) >>

WeekdayName ==
  << <<77,111,110>>, <<84,117,101>>, <<87,101,100>>, <<84,104,117>>,
     <<70,114,105>>, <<83,97,116>>, <<83,117,110>> >>

MonthName ==
  << <<74,97,110>>, <<70,101,98>>, <<77,97,114>>, <<65,112,114>>,
     <<77,97,121>>, <<74,117,110>>, <<74,117,108>>, <<65,117,103>>,
     <<83,101,112>>, <<79,99,116>>, <<78,111,118>>, <<68,101,99>> >>

MidnightText == <<48,48,58,48,48,58,48,48>>

IsoText(y, m, d) == Digits4(y) \o <<45>> \o Digits2(m) \o <<45>> \o Digits2(d)

\* the characters of a date text
TextOf(t) ==
  CASE t.form = "iso" -> IsoText(t.y, t.m, t.d)
    [] t.form = "isotime" -> IsoText(t.y, t.m, t.d) \o <<32>> \o MidnightText
    [] t.form = "verbose" ->
         WeekdayName[t.w] \o <<32>> \o MonthName[t.m] \o <<32>>
           \o Digits2(t.d) \o <<32>> \o MidnightText \o <<32>> \o Digits4(t.y)
    [] t.form = "slash" ->
         Digits2(t.m) \o <<47>> \o Digits2(t.d) \o <<47>> \o Digits4(t.y)
    [] t.form = "embedded" -> <<120>> \o IsoText(t.y, t.m, t.d)
    [] t.form = "junk" -> <<103>>
    [] t.form = "empty" -> << >>
    [] OTHER -> <<91>>

\* Python's < on str: by code point, a proper prefix first
RECURSIVE StrLess(_, _)
StrLess(s, t) ==
  IF t = << >> THEN FALSE
  ELSE IF s = << >> THEN TRUE
  ELSE IF Head(s) /= Head(t) THEN Head(s) < Head(t)
  ELSE StrLess(Tail(s), Tail(t))

SameText(a, b) == TextOf(a) = TextOf(b)

IsoTok(y, m, d) == [form |-> "iso", y |-> y, m |-> m, d |-> d, w |-> 0]

\* ------------------------------------------------------- datetime.strptime
\* each gives the date read, or NoDate where strptime raises ValueError
StrpIso(t) ==          \* '%Y-%m-%d'
  IF t.form = "iso" /\ ValidYMD(t.y, t.m, t.d) THEN MkDate(t.y, t.m, t.d)
  ELSE NoDate

StrpVerbose(t) ==      \* '%a %b %d %H:%M:%S %Y'
  IF t.form = "verbose" /\ ValidYMD(t.y, t.m, t.d) THEN MkDate(t.y, t.m, t.d)
  ELSE NoDate

StrpIsoTime(t) ==      \* '%Y-%m-%d %H:%M:%S'
  IF t.form = "isotime" /\ ValidYMD(t.y, t.m, t.d) THEN MkDate(t.y, t.m, t.d)
  ELSE NoDate

StrpMDY(t) ==          \* '%m/%d/%Y'
  IF t.form = "slash" /\ ValidYMD(t.y, t.m, t.d) THEN MkDate(t.y, t.m, t.d)
  ELSE NoDate

StrpDMY(t) ==          \* '%d/%m/%Y'
  IF t.form = "slash" /\ ValidYMD(t.y, t.d, t.m) THEN MkDate(t.y, t.d, t.m)
  ELSE NoDate

\* re.search(r'(\d{4})-(\d{2})-(\d{2})', s) then datetime(...) in a try
RegexDate(t) ==
  IF t.form \in {"iso", "isotime", "embedded"} /\ ValidYMD(t.y, t.m, t.d)
  THEN MkDate(t.y, t.m, t.d) ELSE NoDate

\* re.match(r'^\d{4}-\d{2}-\d{2}$', s)
LooksIso(t) == t.form = "iso"

\* date_obj.strftime('%Y-%m-%d')
Strftime(dt) == IsoTok(dt.y, dt.m, dt.d)

\* the first of a list of parse results that succeeded
RECURSIVE FirstOk(_)
FirstOk(rs) ==
  IF rs = << >> THEN NoDate
  ELSE IF Head(rs).ok THEN Head(rs) ELSE FirstOk(Tail(rs))

\* as ParseDateFormats, but with '%d/%m/%Y' ahead of '%m/%d/%Y'
ParseDateFormatsDayFirst(t) ==
  LET byFormat == FirstOk(<< StrpIso(t), StrpVerbose(t), StrpIsoTime(t),
                             StrpDMY(t), StrpMDY(t) >>)
  IN IF byFormat.ok THEN byFormat ELSE RegexDate(t)
\* the format list of _parse_data_item and save_to_csv, then the regex
ParseDateFormats(t) ==
  LET byFormat == FirstOk(<< StrpIso(t), StrpVerbose(t), StrpIsoTime(t),
                             StrpMDY(t), StrpDMY(t) >>)
  IN IF byFormat.ok THEN byFormat ELSE RegexDate(t)

\* ---------------------------------------------------------------- numbers
Num(k, r) == [k |-> k, r |-> r]

\* n > v, n <= 0, n < v for a whole number v
NumGt(n, v) ==
  \/ n.k > v \div 1000
  \/ n.k = v \div 1000 /\ n.r > (v % 1000) * 1000
NumLt(n, v) ==
  \/ n.k < v \div 1000
  \/ n.k = v \div 1000 /\ n.r < (v % 1000) * 1000
NumLeZero(n) == ~NumGt(n, 0)

\* f'{price:.2f}' of a positive number: to the nearest hundredth (the model's
\* numbers never lie halfway between two hundredths)
Format2(n) ==
  LET h == (n.r + 5) \div 10      \* hundredths of the part below 1000
  IN IF h >= 100000 THEN [form |-> "num", k |-> n.k + 1, r |-> 0]
     ELSE [form |-> "num", k |-> n.k, r |-> h * 10]

\* float(s): only plain numeric text converts
FloatOk(p) == p.form = "num"
\* float(s.replace(',', ''))
FloatNoSepOk(p) == p.form \in {"num", "sep"}
FloatVal(p) == Num(p.k, p.r)

\* ------------------------------------------------- store file and its rows
\* A store file: exists (the path exists), hdr (its first line is the header
\* date,price) and rows, the lines after the first.  A row has n fields, the
\* date field, the items of the date field when it is a list literal, and
\* the price field.  An item of a list literal: islist and len say whether
\* it is itself a list and how long, date its first element as str() gives
\* it, price its second element.
Obs(date, price) == [date |-> date, price |-> price]

\* ------------------------------------------------------ load_existing_csv
\* The inner pairs of a list-literal row.  bound: whether the function-local
\* name datetime has been bound by the import statement inside this loop.
\* float(item[1]) raising leaves the row with what was appended so far.
\* as LoadItems, but the date of a pair is kept as written
RECURSIVE LoadItemsKeepRaw(_, _, _)
LoadItemsKeepRaw(items, obs, bound) ==
  IF items = << >> THEN [obs |-> obs, bound |-> bound]
  ELSE LET it == Head(items) IN
    IF ~(it.islist /\ it.len >= 2)
    THEN LoadItemsKeepRaw(Tail(items), obs, bound)
    ELSE IF ~FloatOk(it.price) THEN [obs |-> obs, bound |-> bound]
    ELSE LoadItemsKeepRaw(Tail(items),
                          Append(obs, Obs(it.date, FloatVal(it.price))), TRUE)

RECURSIVE LoadItems(_, _, _)
LoadItems(items, obs, bound) ==
  IF items = << >> THEN [obs |-> obs, bound |-> bound]
  ELSE LET it == Head(items) IN
    IF ~(it.islist /\ it.len >= 2) THEN LoadItems(Tail(items), obs, bound)
    ELSE IF ~FloatOk(it.price) THEN [obs |-> obs, bound |-> bound]
    ELSE LET dt == StrpVerbose(it.date)
             o == Obs(IF dt.ok THEN Strftime(dt) ELSE it.date,
                      FloatVal(it.price))
         IN LoadItems(Tail(items), Append(obs, o), TRUE)

\* The date of a normal row.  While datetime is unbound every strptime call
\* of this branch raises UnboundLocalError into its bare except.
NormalRowDate(t, bound) ==
  IF LooksIso(t) THEN t
  ELSE IF ~bound THEN t
  ELSE LET v == StrpVerbose(t)
           o == FirstOk(<< StrpIso(t), StrpMDY(t), StrpDMY(t) >>)
       IN IF v.ok THEN Strftime(v)
          ELSE IF o.ok THEN Strftime(o)
          ELSE t

\* What one row adds, given the observations and the binding so far; stop
\* says that the row raised into the handler around the whole loop.
LoadRow(r, obs, bound) ==
  IF r.n < 2
  THEN [obs |-> obs, bound |-> bound, stop |-> TRUE]
  ELSE IF r.date.form = "badlist"
  THEN [obs |-> obs, bound |-> bound, stop |-> FALSE]
  ELSE IF r.date.form = "list"
  THEN LET a == LoadItems(r.items, obs, bound)
       IN [obs |-> a.obs, bound |-> a.bound, stop |-> FALSE]
  ELSE IF r.date.form = "empty" \/ r.price.form = "empty"
          \/ ~FloatNoSepOk(r.price)
          \/ NumGt(FloatVal(r.price), PriceLimit)
          \/ NumLeZero(FloatVal(r.price))
  THEN [obs |-> obs, bound |-> bound, stop |-> FALSE]
  ELSE [obs |-> Append(obs, Obs(NormalRowDate(r.date, bound),
                                FloatVal(r.price))),
        bound |-> bound, stop |-> FALSE]

RECURSIVE LoadRows(_, _, _)
LoadRows(rows, obs, bound) ==
  IF rows = << >> THEN obs
  ELSE LET a == LoadRow(Head(rows), obs, bound)
       IN IF a.stop THEN a.obs ELSE LoadRows(Tail(rows), a.obs, a.bound)

\* Without the header line csv.DictReader names the columns after the first
\* line, and row.get('date', '') is '' for every row.
load_existing_csv(f) ==
  IF ~f.exists THEN << >>
  ELSE IF ~f.hdr THEN << >>
  ELSE LoadRows(f.rows, << >>, FALSE)

\* ------------------------------------------------------------ save_to_csv
InSeq(sq, t) == \E i \in DOMAIN sq : SameText(sq[i].date, t)

\* data_dict[date] = item: a new key goes last, a known key keeps its place
DictPut(dict, item) ==
  IF InSeq(dict, item.date)
  THEN [i \in DOMAIN dict |->
          IF SameText(dict[i].date, item.date) THEN item ELSE dict[i]]
  ELSE Append(dict, item)

RECURSIVE MergeLoop(_, _, _)
MergeLoop(all, data, dict) ==
  IF all = << >> THEN dict
  ELSE LET item == Head(all) IN
    IF item.date.form = "empty" THEN MergeLoop(Tail(all), data, dict)
    ELSE IF ~InSeq(dict, item.date) \/ InSeq(data, item.date)
    THEN MergeLoop(Tail(all), data, DictPut(dict, item))
    ELSE MergeLoop(Tail(all), data, dict)

Merge(existing, data) == MergeLoop(existing \o data, data, << >>)

\* sorted(..., key=date text): stable, by the text of the date
RECURSIVE InsertSorted(_, _)
InsertSorted(sq, item) ==
  IF sq = << >> THEN << item >>
  ELSE IF StrLess(TextOf(item.date), TextOf(Head(sq).date))
  THEN << item >> \o sq
  ELSE << Head(sq) >> \o InsertSorted(Tail(sq), item)

RECURSIVE SortByDate(_)
SortByDate(sq) ==
  IF sq = << >> THEN << >>
  ELSE InsertSorted(SortByDate(SubSeq(sq, 1, Len(sq) - 1)), sq[Len(sq)])

\* the final pass: the first item of each date text, none with an empty date
RECURSIVE Dedupe(_, _)
Dedupe(sq, seen) ==
  IF sq = << >> THEN seen
  ELSE IF Head(sq).date.form /= "empty" /\ ~InSeq(seen, Head(sq).date)
  THEN Dedupe(Tail(sq), Append(seen, Head(sq)))
  ELSE Dedupe(Tail(sq), seen)

\* the price test of the writer
WriterAccepts(price) == NumGt(price, 0) /\ NumLt(price, PriceLimit)

\* the rows written for the items, in their order
RECURSIVE WriteRows(_)
WriteRows(sq) ==
  IF sq = << >> THEN << >>
  ELSE LET item == Head(sq)
           dt == ParseDateFormats(item.date)
       IN IF dt.ok /\ WriterAccepts(item.price)
          THEN << [n |-> 2, date |-> Strftime(dt), items |-> << >>,
                   price |-> Format2(item.price)] >> \o WriteRows(Tail(sq))
          ELSE WriteRows(Tail(sq))

\* the items written by save_to_csv(data, update_existing) on file f
UniqueData(f, data, update) ==
  LET merged == IF update /\ f.exists
                THEN Merge(load_existing_csv(f), data) ELSE data
  IN Dedupe(SortByDate(merged), << >>)

\* the file left by save_to_csv(data, update_existing), data not empty
SavedFile(f, data, update) ==
  LET unique == UniqueData(f, data, update)
  IN [exists |-> TRUE, hdr |-> unique /= << >>, rows |-> WriteRows(unique)]

\* ------------------------------------- EUA2DataVisualizer.load_data
\* _parse_date_price(date_str, price_str): the formats in the order of the
\* chart loader, then the regex; float() of the price without its commas
_parse_date_price(d, p) ==
  LET byFormat == FirstOk(<< StrpIso(d), StrpMDY(d), StrpDMY(d),
                             StrpVerbose(d), StrpIsoTime(d) >>)
      dt == IF byFormat.ok THEN byFormat ELSE RegexDate(d)
  IN IF ~dt.ok \/ ~FloatNoSepOk(p) THEN << >>
     ELSE << Obs(Strftime(dt), FloatVal(p)) >>

\* the inner pairs of a list-literal row, each parsed on its own
RECURSIVE VizItems(_)
VizItems(items) ==
  IF items = << >> THEN << >>
  ELSE IF Head(items).islist /\ Head(items).len >= 2
  THEN _parse_date_price(Head(items).date, Head(items).price)
       \o VizItems(Tail(items))
  ELSE VizItems(Tail(items))

\* what one row adds; raised: row.get('price', '') is None for a row of one
\* field and .strip() raises AttributeError, which nothing catches
VizRow(r) ==
  IF r.n < 2 THEN [obs |-> << >>, raised |-> TRUE]
  ELSE IF r.date.form = "empty" /\ r.price.form = "empty"
  THEN [obs |-> << >>, raised |-> FALSE]
  ELSE IF r.date.form = "badlist" THEN [obs |-> << >>, raised |-> FALSE]
  ELSE IF r.date.form = "list"
  THEN [obs |-> VizItems(r.items), raised |-> FALSE]
  ELSE IF FloatNoSepOk(r.price) /\ NumGt(FloatVal(r.price), PriceLimit)
  THEN [obs |-> << >>, raised |-> FALSE]
  ELSE [obs |-> _parse_date_price(r.date, r.price), raised |-> FALSE]

RECURSIVE VizRows(_, _)
VizRows(rows, obs) ==
  IF rows = << >> THEN [obs |-> obs, raised |-> FALSE]
  ELSE IF VizRow(Head(rows)).raised THEN [obs |-> << >>, raised |-> TRUE]
  ELSE VizRows(Tail(rows), obs \o VizRow(Head(rows)).obs)

\* load_data(): FileNotFoundError without the file; the rows parsed, sorted
\* by date, the first of each date kept
load_data(f) ==
  IF ~f.exists THEN [obs |-> << >>, raised |-> TRUE]
  ELSE IF ~f.hdr THEN [obs |-> << >>, raised |-> FALSE]
  ELSE [obs |-> Dedupe(SortByDate(VizRows(f.rows, << >>).obs), << >>),
        raised |-> VizRows(f.rows, << >>).raised]

\* -------------------------------------------------------- _parse_data_item
\* A candidate item: kind "scalar", "list" (elems, its elements) or "dict"
\* (elems, its entries [key, val] in order).  A value: ty "none", "num"
\* (num, the number), "inf" (a number no date exists for: Infinity, 1e300)
\* or "str" (date and price, the text read as a date text and as a price
\* text).
NoneVal == [ty |-> "none", num |-> Num(0, 0),
            date |-> [form |-> "empty", y |-> 0, m |-> 0, d |-> 0, w |-> 0],
            price |-> [form |-> "empty", k |-> 0, r |-> 0]]

date_fields == << "date", "time", "timestamp", "x", "datetime", "t" >>
price_fields == << "price", "value", "y", "close", "last", "settlement" >>

HasKey(entries, key) == \E i \in DOMAIN entries : entries[i].key = key
ValueAt(entries, key) ==
  entries[CHOOSE i \in DOMAIN entries : entries[i].key = key].val

\* as FirstField, but an alias whose value is None is passed over
RECURSIVE FirstFieldTruthy(_, _)
FirstFieldTruthy(fields, entries) ==
  IF fields = << >> THEN NoneVal
  ELSE IF HasKey(entries, Head(fields))
          /\ ValueAt(entries, Head(fields)).ty /= "none"
  THEN ValueAt(entries, Head(fields))
  ELSE FirstFieldTruthy(Tail(fields), entries)
\* for field in fields: if field in item: value = item[field]; break
RECURSIVE FirstField(_, _)
FirstField(fields, entries) ==
  IF fields = << >> THEN NoneVal
  ELSE IF HasKey(entries, Head(fields)) THEN ValueAt(entries, Head(fields))
  ELSE FirstField(Tail(fields), entries)

\* Python truth of a value
Truthy(v) ==
  CASE v.ty = "none" -> FALSE
    [] v.ty = "num" -> v.num /= Num(0, 0)
    [] v.ty = "inf" -> TRUE
    [] OTHER -> v.date.form /= "empty" \/ v.price.form /= "empty"

\* days since 1970-01-01 to the calendar date
CivilFromDays(days) ==
  LET z == days + 719468
      era == z \div 146097
      doe == z - era * 146097
      yoe == (doe - doe \div 1460 + doe \div 36524 - doe \div 146096) \div 365
      doy == doe - (365 * yoe + yoe \div 4 - yoe \div 100)
      mp == (5 * doy + 2) \div 153
      d == doy - (153 * mp + 2) \div 5 + 1
      m == IF mp < 10 THEN mp + 3 ELSE mp - 9
      y == yoe + era * 400 + (IF m <= 2 THEN 1 ELSE 0)
  IN MkDate(y, m, d)

\* datetime.fromtimestamp(n) where local time is tz hours ahead of UTC
FromTimestamp(n, tz) ==
  LET rest == (n.k % 864) * 1000 + n.r \div 1000 + tz * 3600
  IN CivilFromDays((n.k \div 864) * 10 + rest \div 86400)

\* the date of a date value
ItemDate(v, tz) ==
  IF v.ty = "num"
  THEN LET n == IF v.num.k > MsThresholdK
                   \/ (v.num.k = MsThresholdK /\ v.num.r > 0)
                THEN Num(v.num.k \div 1000,
                         (v.num.k % 1000) * 1000 + v.num.r \div 1000)
                ELSE v.num
       IN FromTimestamp(n, tz)
  ELSE ParseDateFormats(v.date)

\* as ItemPriceOk, but a price written as text is refused
ItemPriceOkNumbersOnly(v) == v.ty = "num"
\* float(price_value)
ItemPriceOk(v) == v.ty = "num" \/ (v.ty = "str" /\ FloatOk(v.price))
ItemPrice(v) == IF v.ty = "num" THEN v.num ELSE FloatVal(v.price)

NoObs == [ok |-> FALSE, date |-> NoneVal.date, price |-> Num(0, 0)]

\* date_value and price_value of an item
ItemValues(item) ==
  LET named == item.kind = "dict"
      dv0 == IF named THEN FirstField(date_fields, item.elems) ELSE NoneVal
      pv0 == IF named THEN FirstField(price_fields, item.elems) ELSE NoneVal
      positional ==
        \/ item.kind = "list" /\ Len(item.elems) >= 2
        \/ named /\ dv0.ty = "none" /\ pv0.ty = "none" /\ Len(item.elems) = 2
      first == IF named THEN item.elems[1].val ELSE item.elems[1]
      second == IF named THEN item.elems[2].val ELSE item.elems[2]
  IN [dv |-> IF positional THEN first ELSE dv0,
      pv |-> IF positional THEN second ELSE pv0]

\* the try block of _parse_data_item raises: datetime.fromtimestamp does,
\* with OverflowError, for a number no date exists for; every other call
\* that can raise has a try of its own
ItemRaises(item, tz) ==
  /\ item.kind /= "scalar"
  /\ Truthy(ItemValues(item).dv) /\ Truthy(ItemValues(item).pv)
  /\ ItemValues(item).dv.ty = "inf"

\* as ItemEscapes, but without the handler
ItemEscapesUncaught(item, tz) == ItemRaises(item, tz)
\* except Exception as e: pass -- no exception leaves _parse_data_item
ItemEscapes(item, tz) == FALSE

\* the observation of a candidate item, or NoObs for None
_parse_data_item(item, tz) ==
  LET dv == ItemValues(item).dv
      pv == ItemValues(item).pv
  IN IF item.kind = "scalar" THEN NoObs
     ELSE IF ~(Truthy(dv) /\ Truthy(pv)) THEN NoObs
     ELSE IF ItemRaises(item, tz) THEN NoObs
     ELSE LET dt == ItemDate(dv, tz) IN
       IF ~dt.ok THEN NoObs
       ELSE IF ~ItemPriceOk(pv) THEN NoObs
       ELSE IF NumLeZero(ItemPrice(pv)) \/ NumGt(ItemPrice(pv), PriceLimit)
       THEN NoObs
       ELSE [ok |-> TRUE, date |-> Strftime(dt), price |-> ItemPrice(pv)]

\* ------------------------------------------------------------ scrape_data
\* The fetch layer hands candidate items over; the ones that parse are
\* collected and then freed of repeated (date, price) pairs.  An exception
\* that left _parse_data_item would end the loop with what was collected.
RECURSIVE ParseAll(_, _)
ParseAll(cands, tz) ==
  IF cands = << >> THEN << >>
  ELSE IF ItemEscapes(Head(cands), tz) THEN << >>
  ELSE LET o == _parse_data_item(Head(cands), tz)
       IN IF o.ok THEN << Obs(o.date, o.price) >> \o ParseAll(Tail(cands), tz)
          ELSE ParseAll(Tail(cands), tz)

RECURSIVE UniquePairs(_, _)
UniquePairs(sq, seen) ==
  IF sq = << >> THEN seen
  ELSE IF \E i \in DOMAIN seen : seen[i] = Head(sq)
  THEN UniquePairs(Tail(sq), seen)
  ELSE UniquePairs(Tail(sq), Append(seen, Head(sq)))

scrape_data(cands, tz) == UniquePairs(ParseAll(cands, tz), << >>)

\* ------------------------------------------------------------ input texts
Iso(y, m, d) == IsoTok(y, m, d)
IsoTime(y, m, d) == [form |-> "isotime", y |-> y, m |-> m, d |-> d, w |-> 0]
Verbose(w, y, m, d) == [form |-> "verbose", y |-> y, m |-> m, d |-> d, w |-> w]
Slash(a, b, y) == [form |-> "slash", y |-> y, m |-> a, d |-> b, w |-> 0]
Embedded(y, m, d) == [form |-> "embedded", y |-> y, m |-> m, d |-> d, w |-> 0]
Junk == [form |-> "junk", y |-> 0, m |-> 0, d |-> 0, w |-> 0]
ListText == [form |-> "list", y |-> 0, m |-> 0, d |-> 0, w |-> 0]
BadListText == [form |-> "badlist", y |-> 0, m |-> 0, d |-> 0, w |-> 0]
EmptyText == NoneVal.date

\* price texts: units and thousandths, so P(85, 500) is 85.500
P(u, th) == [form |-> "num", k |-> u \div 1000, r |-> (u % 1000) * 1000 + th]
WithSep(p) == [p EXCEPT !.form = "sep"]
WithCur(p) == [p EXCEPT !.form = "cur"]
JunkPrice == [form |-> "junk", k |-> 0, r |-> 0]
EmptyPrice == NoneVal.price

Row(date, price) == [n |-> 2, date |-> date, items |-> << >>, price |-> price]
ShortRow(date) == [n |-> 1, date |-> date, items |-> << >>, price |-> EmptyPrice]
LongRow(date, price) == [Row(date, price) EXCEPT !.n = 3]
ListRow(items) == [n |-> 2, date |-> ListText, items |-> items,
                   price |-> EmptyPrice]
Pair(date, price) == [islist |-> TRUE, len |-> 2, date |-> date, price |-> price]

\* the rows an initial store file is made of
RowSet ==
  { Row(Iso(2024, 1, 1), P(80, 0)),
    Row(Iso(2024, 1, 2), P(81, 0)),
    Row(IsoTime(2024, 1, 1), P(82, 0)),
    Row(Embedded(2023, 12, 31), P(83, 0)),
    Row(Iso(2024, 1, 2), P(1000000, 0)),
    Row(Iso(2024, 1, 3), P(999999, 996)),
    Row(Junk, P(85, 500)),
    Row(Verbose(2, 2025, 7, 1), P(86, 0)),
    ShortRow(Iso(2024, 1, 1)),
    ListRow(<< Pair(Verbose(1, 2025, 6, 30), P(85, 500)),
               Pair(Verbose(2, 2025, 7, 1), P(86, 0)) >>) }

\* further rows for the reader alone
LoadRowSet ==
  RowSet \cup
  { Row(Iso(2024, 1, 1), P(8322696, 0)),
    Row(Iso(2024, 1, 3), P(0, 0)),
    Row(Iso(2024, 1, 3), JunkPrice),
    Row(Slash(1, 2, 2024), P(87, 0)),
    LongRow(Iso(2024, 1, 3), P(84, 0)),
    ListRow(<< Pair(Verbose(1, 2025, 6, 30), P(8322696, 0)),
               Pair(Verbose(2, 2025, 7, 1), JunkPrice),
               Pair(Slash(1, 2, 2024), P(3, 0)) >>),
    [ListRow(<< >>) EXCEPT !.date = BadListText] }

RECURSIVE SeqsUpTo(_, _)
SeqsUpTo(S, n) ==
  IF n = 0 THEN { << >> }
  ELSE LET shorter == SeqsUpTo(S, n - 1)
       IN shorter \cup { Append(sq, x) : sq \in shorter, x \in S }

Str(date, price) == [ty |-> "str", num |-> Num(0, 0), date |-> date,
                     price |-> price]
DateStr(t) == Str(t, JunkPrice)
Number(u, th) == [ty |-> "num", num |-> FloatVal(P(u, th)), date |-> Junk,
                  price |-> P(u, th)]
ListItem(a, b) == [kind |-> "list", elems |-> << a, b >>]
DictItem(entries) == [kind |-> "dict", elems |-> entries]
Entry(key, val) == [key |-> key, val |-> val]

\* the candidate items the fetch layer hands over
CandSet ==
  { ListItem(DateStr(Iso(2024, 1, 1)), Number(85, 500)),
    ListItem(DateStr(Verbose(2, 2024, 1, 2)), Number(1000000, 0)),
    DictItem(<< Entry("date", DateStr(Iso(2024, 1, 1))),
                Entry("price", Number(90, 4)) >>),
    DictItem(<< Entry("x", DateStr(Slash(1, 4, 2024))),
                Entry("y", Number(8322696, 0)) >>) }

\* hours that local time is ahead of UTC; only a numeric date value depends
\* on it, and the candidate items above carry none
TzHours == { 0 }

\* ------------------------------------------------------- _parse_json_data
\* A JSON value: kind "scalar" (leaf, its value), "list" (elems, its
\* elements) or "dict" (elems, its entries [key, val], val a JSON value).
Scalar(v) == [kind |-> "scalar", leaf |-> v, elems |-> << >>]
List(elems) == [kind |-> "list", leaf |-> NoneVal, elems |-> elems]
Dict(entries) == [kind |-> "dict", leaf |-> NoneVal, elems |-> entries]

\* the JSON values inside a container, in order
Children(node) ==
  IF node.kind = "dict"
  THEN [i \in DOMAIN node.elems |-> node.elems[i].val]
  ELSE node.elems

\* str(date_value) of a container, as the formats and the regex read it:
\* no format fits, and the regex finds the first YYYY-MM-DD written in it
RECURSIVE ReprDate(_), ReprDateSeq(_)
ReprDate(node) ==
  IF node.kind = "scalar"
  THEN IF node.leaf.ty = "str"
          /\ node.leaf.date.form \in {"iso", "isotime", "embedded"}
       THEN [node.leaf.date EXCEPT !.form = "embedded"]
       ELSE Junk
  ELSE ReprDateSeq(Children(node))
ReprDateSeq(nodes) ==
  IF nodes = << >> THEN Junk
  ELSE IF ReprDate(Head(nodes)).form = "embedded" THEN ReprDate(Head(nodes))
  ELSE ReprDateSeq(Tail(nodes))

\* a JSON value as date_value or price_value: an empty container is false
\* and not None, float() of a container raises TypeError
ValueOf(node) ==
  CASE node.kind = "scalar" -> node.leaf
    [] node.elems = << >> -> Str(EmptyText, EmptyPrice)
    [] OTHER -> Str(ReprDate(node), JunkPrice)

\* a JSON value as the item of _parse_data_item
ItemOf(node) ==
  CASE node.kind = "list" ->
         [kind |-> "list",
          elems |-> [i \in DOMAIN node.elems |-> ValueOf(node.elems[i])]]
    [] node.kind = "dict" ->
         [kind |-> "dict",
          elems |-> [i \in DOMAIN node.elems |->
                       Entry(node.elems[i].key, ValueOf(node.elems[i].val))]]
    [] OTHER -> [kind |-> "scalar", elems |-> << >>]

\* not data
Falsy(node) ==
  IF node.kind = "scalar" THEN ~Truthy(node.leaf) ELSE node.elems = << >>

\* as ParseItems, but only the first item is looked at
ParseItemsFirstOnly(nodes, tz) ==
  IF nodes = << >> THEN << >>
  ELSE ParseAll(<< ItemOf(Head(nodes)) >>, tz)
\* for item in items: parsed = self._parse_data_item(item); append if parsed
ParseItems(nodes, tz) ==
  IF nodes = << >> THEN << >>
  ELSE ParseAll([i \in DOMAIN nodes |-> ItemOf(nodes[i])], tz)

json_keys == << "data", "series", "values", "prices", "points", "items" >>

\* for key in [...]: if key in data and data[key] is a list, its items
RECURSIVE ParseKeys(_, _, _)
ParseKeys(keys, node, tz) ==
  IF keys = << >> THEN << >>
  ELSE LET here ==
             IF HasKey(node.elems, Head(keys))
                /\ ValueAt(node.elems, Head(keys)).kind = "list"
             THEN ParseItems(ValueAt(node.elems, Head(keys)).elems, tz)
             ELSE << >>
       IN here \o ParseKeys(Tail(keys), node, tz)

\* _parse_json_data(data)
_parse_json_data(node, tz) ==
  IF Falsy(node) THEN << >>
  ELSE IF node.kind = "list" THEN ParseItems(node.elems, tz)
  ELSE IF node.kind = "dict"
  THEN ParseKeys(json_keys, node, tz) \o ParseItems(<< node >>, tz)
  ELSE << >>

\* ------------------------------------------------------------ JSON inputs
MaxElems == 2

\* a whole number of seconds, and a whole number of thousands
Seconds(s) == Number(s, 0)
Thousands(k) == [Number(0, 0) EXCEPT !.num = Num(k, 0),
                                     !.price = [form |-> "num", k |-> k,
                                                r |-> 0]]
PairOf(a, b) == List(<< Scalar(a), Scalar(b) >>)

\* 2024-07-01T00:00:00Z in seconds and in milliseconds, and a small pair
SecondsPair == PairOf(Seconds(1719792000), Number(86, 0))
MillisPair == PairOf(Thousands(1719792000), Number(86, 500))
SmallSecondsPair == PairOf(Seconds(5000000), Number(87, 0))
SmallMillisPair == PairOf(Thousands(5000000), Number(87, 500))

IsoPair == PairOf(DateStr(Iso(2024, 1, 1)), Number(85, 500))
TextPair == PairOf(DateStr(Verbose(2, 2024, 1, 2)),
                   Str(Junk, P(86, 250)))
Record == Dict(<< Entry("date", Scalar(DateStr(Iso(2024, 1, 3)))),
                  Entry("price", Scalar(Number(90, 0))) >>)
Wrapped == Dict(<< Entry("data", List(<< IsoPair >>)) >>)
Nested == List(<< IsoPair, TextPair >>)

\* the elements a list candidate is made of
ElemSet ==
  { IsoPair, TextPair, SecondsPair, MillisPair, Record, Wrapped, Nested,
    Scalar(DateStr(Iso(2024, 1, 1))),
    PairOf(DateStr(Junk), Number(85, 500)) }

\* the JSON values handed to _parse_json_data
JsonSet ==
  { List(es) : es \in SeqsUpTo(ElemSet, MaxElems) }
  \cup ElemSet
  \cup { List(<< SmallSecondsPair, SmallMillisPair >>),
         Dict(<< Entry("points", List(<< TextPair, Record >>)),
                 Entry("series", Scalar(DateStr(Junk))),
                 Entry("date", Scalar(DateStr(Iso(2024, 1, 3)))),
                 Entry("price", Scalar(Number(5, 0))) >>),
         Scalar(NoneVal) }

\* hours that local time is ahead of UTC where the program runs
Zones == { -5, 0, 2 }

\* ------------------------------------------------------- item inputs
\* a number no date exists for
Infinite == [NoneVal EXCEPT !.ty = "inf"]
\* a price written as text
PriceStr(p) == Str(Junk, p)

\* date texts of every form the formats and the regex tell apart
DateTokens ==
  { Iso(2024, 1, 2), Verbose(2, 2024, 1, 2), IsoTime(2024, 1, 2),
    Slash(1, 2, 2024), Slash(2, 13, 2024), Slash(13, 2, 2024),
    Slash(13, 13, 2024), Embedded(2024, 1, 2), Iso(2024, 2, 30), Junk }

\* price tokens: numbers, plain text, text with thousands separators or a
\* currency symbol, text that is no number
PriceTokens ==
  { Number(85, 500), Number(1000000, 0), Number(0, 0),
    PriceStr(P(86, 250)), PriceStr(WithSep(P(1234, 500))),
    PriceStr(WithCur(P(85, 500))), PriceStr(JunkPrice) }

\* the values a keyed record holds under an alias
AliasDates == { DateStr(Iso(2024, 1, 3)), DateStr(Junk), NoneVal }
AliasPrices == { Number(90, 0), PriceStr(JunkPrice), NoneVal }

\* keyed records: aliases in and out of list order, with values that are
\* accepted, rejected or null; and records without any alias
Records ==
  { Dict(<< Entry("time", Scalar(DateStr(Iso(2024, 1, 2)))),
            Entry("date", Scalar(d)),
            Entry("value", Scalar(Number(80, 0))),
            Entry("price", Scalar(p)) >>) :
      d \in AliasDates, p \in AliasPrices }
  \cup
  { Dict(<< Entry("t", Scalar(DateStr(Iso(2024, 1, 2)))),
            Entry("x", Scalar(d)),
            Entry("settlement", Scalar(Number(80, 0))),
            Entry("y", Scalar(p)) >>) :
      d \in AliasDates, p \in AliasPrices }
  \cup
  { Dict(<< Entry("foo", Scalar(DateStr(Iso(2024, 1, 2)))),
            Entry("bar", Scalar(Number(80, 0))) >>),
    Dict(<< Entry("date", Scalar(NoneVal)),
            Entry("time", Scalar(Number(85, 500))) >>),
    Dict(<< Entry("datetime", Scalar(DateStr(Iso(2024, 1, 2)))),
            Entry("volume", Scalar(Number(80, 0))) >>),
    Dict(<< Entry("timestamp", Scalar(Seconds(1719792000))),
            Entry("close", Scalar(Number(80, 0))),
            Entry("last", Scalar(Number(81, 0))) >>) }

\* items the try block raises for, and other items without observation
BadItems ==
  { PairOf(Infinite, Number(85, 500)),
    PairOf(DateStr(Junk), Number(85, 500)),
    Scalar(Number(5, 0)) }

\* the candidates handed to _parse_data_item, and in lists of two to
\* _parse_json_data
ItemSet ==
  { PairOf(DateStr(d), p) : d \in DateTokens, p \in PriceTokens }
  \cup Records
  \cup BadItems
  \cup { PairOf(DateStr(Iso(2024, 1, 1)), Infinite),
         List(<< Scalar(DateStr(Iso(2024, 1, 1))) >>) }
  \cup { List(<< b, IsoPair >>) : b \in BadItems }
  \cup { List(<< IsoPair, b, TextPair >>) : b \in BadItems }

\* ----------------------------------------------------- _parse_tooltip_text
\* A tooltip text: form says how it is laid out, "labelled" for
\* 'Date: <date>, Price: <p>', "euro" for '<date>: €<p>', "price_first" for
\* 'Price: <p> on <date>', "comma_first" for 'Close, <date>: €<p>', "words"
\* for a text without digits and commas; date has the style "ymd-", "ymd/"
\* or "dmy/" and its three numbers; price is the price text.
Tip(form, date, price) == [form |-> form, date |-> date, price |-> price]
TipDate(style, y, m, d) == [style |-> style, y |-> y, m |-> m, d |-> d]

\* the first of date_patterns that matches, then date_match.replace('/', '-')
TipDateText(t) ==
  IF t.form = "words" THEN EmptyText
  ELSE IF t.date.style \in {"ymd-", "ymd/"}
  THEN IsoTok(t.date.y, t.date.m, t.date.d)
  ELSE [form |-> "dmy", y |-> t.date.y, m |-> t.date.m, d |-> t.date.d,
        w |-> 0]

\* re.search(r'[\d,]+\.?\d*', text): the first run of digits and commas
\* of the text, with the decimals that follow it; where the date stands
\* first this is the first number of the date.  The two patterns after it
\* match nothing this one does not.
TipPriceText(t) ==
  CASE t.form = "words" -> EmptyPrice
    [] t.form = "comma_first" -> JunkPrice
    [] t.form = "price_first" -> t.price
    [] OTHER -> IF t.date.style = "dmy/" THEN P(t.date.d, 0)
                ELSE P(t.date.y, 0)

\* _parse_tooltip_text(text): the observation in a list, or none for None
_parse_tooltip_text(t) ==
  IF TipDateText(t).form = "empty" \/ TipPriceText(t).form = "empty"
  THEN << >>
  ELSE IF ~FloatNoSepOk(TipPriceText(t)) THEN << >>
  ELSE << Obs(TipDateText(t), FloatVal(TipPriceText(t))) >>

\* the tooltip texts the chart shows
TipSet ==
  { Tip(f, TipDate(st, dt[1], dt[2], dt[3]), p) :
      f \in {"labelled", "euro", "price_first", "comma_first", "words"},
      st \in {"ymd-", "ymd/", "dmy/"},
      dt \in { << 2023, 1, 1 >>, << 2024, 12, 31 >>, << 2025, 6, 30 >> },
      p \in { P(85, 500), P(86, 0), WithSep(P(1234, 500)) } }

\* ------------------------------------------------------------------ state
VARIABLES
  store,   \* the store file
  pre,     \* the store file before the last operation
  op,      \* the last operation: "none", "load", "cleanup", "save", "scrape",
           \* "parse", "item", "viz", "save_points", "tooltip"
  data,    \* what the last scrape_data call returned
  upd,     \* update_existing of the last save_to_csv call
  ret,     \* what the last operation returned (loaded: what its
           \* load_existing_csv call returned)
  pc,      \* where scrape_eua2.main stands
  inp,     \* the JSON value and the time zone of the last extraction
  wr,      \* where the write of save_to_csv stands, and what is left to write
  data_points  \* self.data_points of the scraper object

vars == << store, pre, op, data, upd, ret, pc, inp, wr, data_points >>

NoRet == [loaded |-> << >>, count |-> 0, raised |-> FALSE]

NoFile == [exists |-> FALSE, hdr |-> FALSE, rows |-> << >>]
File(rows) == [exists |-> TRUE, hdr |-> TRUE, rows |-> rows]
\* a file whose first line is not the header
Headless(rows) == [exists |-> TRUE, hdr |-> FALSE, rows |-> rows]

\* nothing extracted yet, no write under way
NoInput == [cand |-> Scalar(NoneVal), tz |-> 0]
NoWrite == [st |-> "idle", hdr |-> FALSE, rows |-> << >>]

InitOver(rowSet) ==
  /\ store \in { NoFile }
        \cup { File(rs) : rs \in SeqsUpTo(rowSet, MaxRows) }
        \cup { Headless(rs) : rs \in SeqsUpTo(rowSet, 1) }
  /\ pre = store
  /\ op = "none"
  /\ data = << >>
  /\ upd = FALSE
  /\ ret = NoRet
  /\ pc = "start"
  /\ inp = NoInput
  /\ data_points = << >>
  /\ wr = NoWrite

Init == InitOver(RowSet)

\* load_existing_csv()
Load ==
  /\ op' = "load"
  /\ pre' = store
  /\ ret' = [NoRet EXCEPT !.loaded = load_existing_csv(store)]
  /\ UNCHANGED << store, data, upd, pc, inp, wr, data_points >>

\* the file after cleanup_csv()
CleanedFile(f) ==
  IF ~f.exists \/ load_existing_csv(f) = << >> THEN f
  ELSE SavedFile(f, load_existing_csv(f), FALSE)

\* cleanup_csv()
Cleanup ==
  /\ op' = "cleanup"
  /\ pre' = store
  /\ store' = CleanedFile(store)
  /\ ret' = [NoRet EXCEPT !.loaded = load_existing_csv(store),
                          !.count = Len(load_existing_csv(store))]
  /\ UNCHANGED << data, upd, pc, inp, wr, data_points >>

\* data = scrape_data(): the fetch layer yields some candidate items;
\* self.data_points is assigned only when something was extracted
Scrape ==
  \E cands \in SeqsUpTo(CandSet, MaxBatch), tz \in TzHours :
    /\ op' = "scrape"
    /\ pre' = store
    /\ data' = scrape_data(cands, tz)
    /\ data_points' = IF data' /= << >> THEN data' ELSE data_points
    /\ ret' = NoRet
    /\ UNCHANGED << store, upd, pc, inp, wr >>

\* as NoDataToSave, but no series is refused
NoDataToSaveNever(d) == FALSE
\* if not data: raise ValueError("No data to save")
NoDataToSave(d) == d = << >>

\* save_to_csv(data, update_existing) with the data of the last scrape
Save ==
  \E u \in BOOLEAN :
    /\ op' = "save"
    /\ pre' = store
    /\ upd' = u
    /\ IF NoDataToSave(data)
       THEN /\ ret' = [NoRet EXCEPT !.raised = TRUE]
            /\ UNCHANGED store
       ELSE /\ ret' = [NoRet EXCEPT !.loaded =
                         IF u THEN load_existing_csv(store) ELSE << >>]
            /\ store' = SavedFile(store, data, u)
    /\ UNCHANGED << data, pc, inp, wr, data_points >>

Next == Load \/ Cleanup \/ Scrape \/ Save

Spec == Init /\ [][Next]_vars

\* the reader alone, over more shapes of rows
InitLoad == InitOver(LoadRowSet)
NextLoad == Load
SpecLoad == InitLoad /\ [][NextLoad]_vars

\* ------------------------------------------------------- scrape_eua2.main
\* up to the scrape: cleanup_csv(), and load_existing_csv() for the summary
\* line, whose existing_data[0] raises IndexError on an empty list
MainCleanup ==
  /\ pc = "start"
  /\ op' = "cleanup"
  /\ pre' = store
  /\ store' = CleanedFile(store)
  /\ ret' = [NoRet EXCEPT
               !.loaded = load_existing_csv(store),
               !.count = IF store.exists
                         THEN Len(load_existing_csv(store)) ELSE 0]
  /\ pc' = IF ret'.count > 0 /\ load_existing_csv(store') = << >>
           THEN "crashed" ELSE "scrape"
  /\ UNCHANGED << data, upd, inp, wr, data_points >>

\* data = scraper.scrape_data(try_multiple_spans=True); with no data the run
\* ends here, and pre is still the store file the run started with
MainScrape ==
  /\ pc = "scrape"
  /\ \E cands \in SeqsUpTo(CandSet, MaxBatch), tz \in TzHours :
       data' = scrape_data(cands, tz)
  /\ data_points' = IF data' /= << >> THEN data' ELSE data_points
  /\ op' = "scrape"
  /\ ret' = NoRet
  /\ pc' = IF data' /= << >> THEN "save" ELSE "done"
  /\ UNCHANGED << store, pre, upd, inp, wr >>

\* save_to_csv(data, update_existing=True), then the summary
MainSave ==
  /\ pc = "save"
  /\ op' = "save"
  /\ pre' = store
  /\ upd' = TRUE
  /\ store' = SavedFile(store, data, TRUE)
  /\ ret' = [NoRet EXCEPT !.loaded = load_existing_csv(store)]
  /\ pc' = "done"
  /\ UNCHANGED << data, inp, wr, data_points >>

NextMain == MainCleanup \/ MainScrape \/ MainSave

SpecMain == Init /\ [][NextMain]_vars

\* --------------------------------- the reader on rows of several pairs
\* an element of a list literal that is no list
NotAPair == [islist |-> FALSE, len |-> 0, date |-> EmptyText,
             price |-> EmptyPrice]

\* list-literal rows with a pair or an element that fails between two pairs
\* that do not
PairRowSet ==
  LoadRowSet \cup
  { ListRow(<< Pair(Verbose(1, 2025, 6, 30), P(85, 500)),
               Pair(Verbose(2, 2025, 7, 1), JunkPrice),
               Pair(Verbose(3, 2025, 7, 2), P(86, 0)) >>),
    ListRow(<< Pair(Verbose(1, 2025, 6, 30), P(85, 500)),
               NotAPair,
               Pair(Verbose(3, 2025, 7, 2), P(86, 0)) >>) }

InitPairs == InitOver(PairRowSet)
NextPairs == Load
SpecPairs == InitPairs /\ [][NextPairs]_vars

\* ------------------------------------ the chart loader next to the reader
\* data = visualizer.load_data()
VizLoad ==
  /\ op' = "viz"
  /\ pre' = store
  /\ ret' = [NoRet EXCEPT !.loaded = load_data(store).obs,
                          !.raised = load_data(store).raised]
  /\ UNCHANGED << store, data, upd, pc, inp, wr, data_points >>

InitViz == InitOver(LoadRowSet)
NextViz == Load \/ VizLoad
SpecViz == InitViz /\ [][NextViz]_vars

\* ------------------------------------------------ cleanup_csv on more rows
\* rows with a price below half a cent, and with a list literal whose pair
\* has an empty date
CleanRowSet ==
  LoadRowSet \cup
  { Row(Iso(2024, 1, 3), P(0, 4)),
    ListRow(<< Pair(EmptyText, P(5, 0)) >>) }

InitClean == InitOver(CleanRowSet)
NextClean == Load \/ Cleanup
SpecClean == InitClean /\ [][NextClean]_vars

\* ------------------------------------------- the write of save_to_csv, step
\* by step.  open(path, 'w') leaves the file empty; the header and each row
\* reach the file in order; an I/O error ends the write where it stands.
WriteRowSet ==
  { Row(Iso(2024, 1, 1), P(80, 0)),
    Row(Iso(2024, 1, 2), P(81, 0)),
    Row(Iso(2024, 1, 3), P(999999, 996)) }

InitWrite == InitOver(WriteRowSet)

\* data = scrape_data(), before the save
WriteScrape == wr.st = "idle" /\ Scrape

\* save_to_csv up to open(output_path, 'w'), which empties the file or
\* raises OSError
SaveOpen ==
  \E u \in BOOLEAN, opened \in BOOLEAN :
    /\ wr.st = "idle"
    /\ ~NoDataToSave(data)
    /\ op' = "save"
    /\ pre' = store
    /\ upd' = u
    /\ IF opened
       THEN /\ store' = [exists |-> TRUE, hdr |-> FALSE, rows |-> << >>]
            /\ wr' = [st |-> "writing",
                      hdr |-> UniqueData(store, data, u) /= << >>,
                      rows |-> WriteRows(UniqueData(store, data, u))]
            /\ ret' = [NoRet EXCEPT !.loaded =
                         IF u THEN load_existing_csv(store) ELSE << >>]
       ELSE /\ wr' = [NoWrite EXCEPT !.st = "failed"]
            /\ ret' = [NoRet EXCEPT !.raised = TRUE]
            /\ UNCHANGED store
    /\ UNCHANGED << data, pc, inp, data_points >>

\* writer.writeheader(), then one writer.writerow(...) at a time, then the
\* end of the with block
SaveWrite ==
  /\ wr.st = "writing"
  /\ IF wr.hdr
     THEN /\ store' = [store EXCEPT !.hdr = TRUE]
          /\ wr' = [wr EXCEPT !.hdr = FALSE]
     ELSE IF wr.rows /= << >>
     THEN /\ store' = [store EXCEPT !.rows = Append(@, Head(wr.rows))]
          /\ wr' = [wr EXCEPT !.rows = Tail(@)]
     ELSE /\ wr' = [wr EXCEPT !.st = "done"]
          /\ UNCHANGED store
  /\ UNCHANGED << pre, op, data, upd, ret, pc, inp, data_points >>

\* a write raises OSError before the file is complete
SaveFail ==
  /\ wr.st = "writing"
  /\ wr.hdr \/ wr.rows /= << >>
  /\ wr' = [wr EXCEPT !.st = "failed"]
  /\ ret' = [ret EXCEPT !.raised = TRUE]
  /\ UNCHANGED << store, pre, op, data, upd, pc, inp, data_points >>

NextWrite == WriteScrape \/ SaveOpen \/ SaveWrite \/ SaveFail
SpecWrite == InitWrite /\ [][NextWrite]_vars

\* ------------------------------------ save_to_csv() without an argument
\* save_to_csv(update_existing=u): data is None, so data = self.data_points
SaveDefault ==
  \E u \in BOOLEAN :
    /\ op' = "save_points"
    /\ pre' = store
    /\ upd' = u
    /\ IF NoDataToSave(data_points)
       THEN /\ ret' = [NoRet EXCEPT !.raised = TRUE]
            /\ UNCHANGED store
       ELSE /\ ret' = [NoRet EXCEPT !.loaded =
                         IF u THEN load_existing_csv(store) ELSE << >>]
            /\ store' = SavedFile(store, data_points, u)
    /\ UNCHANGED << data, pc, inp, wr, data_points >>

InitPoints == InitOver(WriteRowSet)
NextPoints == Scrape \/ SaveDefault
SpecPoints == InitPoints /\ [][NextPoints]_vars

\* ------------------------------------------------- the extractor on its own
InitExtract ==
  /\ store = NoFile
  /\ pre = NoFile
  /\ op = "none"
  /\ data = << >>
  /\ upd = FALSE
  /\ ret = NoRet
  /\ pc = "start"
  /\ wr = NoWrite
  /\ data_points = << >>
  /\ inp \in { [cand |-> c, tz |-> z] : c \in JsonSet, z \in Zones }

\* data = _parse_json_data(candidate); its own handler (except Exception)
\* lets nothing out
ParseJson ==
  /\ op' = "parse"
  /\ data' = _parse_json_data(inp.cand, inp.tz)
  /\ ret' = NoRet
  /\ UNCHANGED << store, pre, upd, pc, inp, wr, data_points >>

NextExtract == ParseJson
SpecExtract == InitExtract /\ [][NextExtract]_vars

\* ------------------------------------------------ tooltips on their own
InitTooltip ==
  /\ store = NoFile
  /\ pre = NoFile
  /\ op = "none"
  /\ data = << >>
  /\ upd = FALSE
  /\ ret = NoRet
  /\ pc = "start"
  /\ wr = NoWrite
  /\ data_points = << >>
  /\ inp \in { [cand |-> t, tz |-> 0] : t \in TipSet }

\* parsed = self._parse_tooltip_text(tooltip_text); data.append if parsed
ParseTooltip ==
  /\ op' = "tooltip"
  /\ data' = _parse_tooltip_text(inp.cand)
  /\ ret' = NoRet
  /\ UNCHANGED << store, pre, upd, pc, inp, wr, data_points >>

NextTooltip == ParseTooltip
SpecTooltip == InitTooltip /\ [][NextTooltip]_vars

\* ------------------------------------------ _parse_data_item on its own
InitItem ==
  /\ store = NoFile
  /\ pre = NoFile
  /\ op = "none"
  /\ data = << >>
  /\ upd = FALSE
  /\ ret = NoRet
  /\ pc = "start"
  /\ wr = NoWrite
  /\ data_points = << >>
  /\ inp \in { [cand |-> c, tz |-> z] : c \in ItemSet, z \in Zones }

\* parsed = _parse_data_item(item); data holds parsed unless it is None
ParseItem ==
  /\ op' = "item"
  /\ data' = IF _parse_data_item(ItemOf(inp.cand), inp.tz).ok
             THEN << Obs(_parse_data_item(ItemOf(inp.cand), inp.tz).date,
                         _parse_data_item(ItemOf(inp.cand), inp.tz).price) >>
             ELSE << >>
  /\ ret' = [NoRet EXCEPT !.raised = ItemEscapes(ItemOf(inp.cand), inp.tz)]
  /\ UNCHANGED << store, pre, upd, pc, inp, wr, data_points >>

NextItem == ParseItem \/ ParseJson
SpecItem == InitItem /\ [][NextItem]_vars

\* ================================================================= claims
\* the last operation rewrote the store file
Rewrote ==
  \/ op = "save" /\ ~ret.raised
  \/ op = "cleanup" /\ ret.count > 0

\* the calendar date a date text denotes, as a number (0: none)
DateOf(t) ==
  IF ParseDateFormats(t).ok THEN DateNum(ParseDateFormats(t)) ELSE 0

\* a number is a valid price: 0 < price <= 1,000,000
ValidPrice(n) == NumGt(n, 0) /\ ~NumGt(n, PriceLimit)

\* a row in canonical form: two fields, an ISO calendar date, a plain price
\* of at most two decimals within the bound
CanonicalRow(r) ==
  /\ r.n = 2
  /\ r.date.form = "iso" /\ ValidYMD(r.date.y, r.date.m, r.date.d)
  /\ r.price.form = "num" /\ r.price.r % 10 = 0
  /\ ValidPrice(FloatVal(r.price))

\* the rows of file f that hold calendar date dn
RowsOf(f, dn) == { i \in DOMAIN f.rows : DateOf(f.rows[i].date) = dn }

\* the prices, as two-decimal text, that a list of observations has for dn
PricesOf(obs, dn) ==
  { Format2(obs[i].price) : i \in { j \in DOMAIN obs : DateOf(obs[j].date) = dn } }

DatesOf(obs) == { DateOf(obs[i].date) : i \in DOMAIN obs } \ { 0 }

MergeRun == op = "save" /\ upd /\ ~ret.raised /\ pre.exists

\* C1: after save_to_csv(data, update_existing=True) on an existing store,
\* every date of the existing store or of the batch has exactly one row in
\* the store, with the batch's price if the batch has the date and with the
\* existing price otherwise.
C1_RightBiasedMerge ==
  MergeRun =>
    \A dn \in DatesOf(ret.loaded) \cup DatesOf(data) :
      /\ Cardinality(RowsOf(store, dn)) = 1
      /\ \A i \in RowsOf(store, dn) :
            store.rows[i].price \in
              (IF dn \in DatesOf(data) THEN PricesOf(data, dn)
               ELSE PricesOf(ret.loaded, dn))

\* C2: a canonical row of the store before a merge run, the only one of its
\* date and of a date the batch does not have, is in the store after the
\* run with the same price.
C2_HistoryPreserved ==
  MergeRun /\ pre.hdr =>
    \A i \in DOMAIN pre.rows :
      ( /\ CanonicalRow(pre.rows[i])
        /\ RowsOf(pre, DateOf(pre.rows[i].date)) = { i }
        /\ DateOf(pre.rows[i].date) \notin DatesOf(data) )
      => \E j \in DOMAIN store.rows :
           /\ store.rows[j].date = pre.rows[i].date
           /\ store.rows[j].price = pre.rows[i].price

\* C3: once cleanup_csv or save_to_csv has written the store file, no
\* calendar date is in more than one of its rows.
C3_NoDuplicateDates ==
  Rewrote =>
    \A i, j \in DOMAIN store.rows :
      i /= j => DateOf(store.rows[i].date) /= DateOf(store.rows[j].date)

\* C4: once cleanup_csv or save_to_csv has written the store file, its rows
\* are in strictly ascending order of the date written in them.
C4_AscendingDates ==
  Rewrote =>
    \A i \in 1 .. Len(store.rows) - 1 :
      DateOf(store.rows[i].date) < DateOf(store.rows[i + 1].date)

\* C5: a second merge-and-save with the same batch leaves the store file as
\* the first left it, and a second cleanup_csv leaves it as the first did.
C5_Idempotent ==
  /\ (op = "save" /\ upd /\ ~ret.raised) => SavedFile(store, data, TRUE) = store
  /\ (op = "cleanup") => CleanedFile(store) = store

\* a valid canonical series: ISO dates, distinct and ascending, prices of at
\* most two decimals with 0 < price <= 1,000,000
CanonicalSeries(obs) ==
  /\ \A i \in DOMAIN obs :
        /\ obs[i].date.form = "iso"
        /\ ValidYMD(obs[i].date.y, obs[i].date.m, obs[i].date.d)
        /\ obs[i].price.r % 10 = 0
        /\ ValidPrice(obs[i].price)
  /\ \A i \in 1 .. Len(obs) - 1 : DateOf(obs[i].date) < DateOf(obs[i + 1].date)

\* C6: saving a valid canonical series S with update_existing=False and
\* loading the store gives exactly S.
C6_RoundTrip ==
  (op = "save" /\ ~upd /\ ~ret.raised /\ CanonicalSeries(data))
    => load_existing_csv(store) = data

\* C7: no observation returned by load_existing_csv or by _parse_data_item
\* has a price above 1,000,000 or a price <= 0.
C7_CorruptionGuard ==
  /\ \A i \in DOMAIN ret.loaded : ValidPrice(ret.loaded[i].price)
  /\ \A i \in DOMAIN data : ValidPrice(data[i].price)

\* a row whose date field is a list of [verbose timestamp, price] pairs and
\* whose price field is empty
RepairRow(r) ==
  /\ r.n = 2 /\ r.date.form = "list" /\ r.price.form = "empty"
  /\ r.items /= << >>
  /\ \A i \in DOMAIN r.items :
        /\ r.items[i].islist /\ r.items[i].len = 2
        /\ r.items[i].date.form = "verbose"
        /\ ValidYMD(r.items[i].date.y, r.items[i].date.m, r.items[i].date.d)
        /\ r.items[i].price.form = "num"

\* one observation per inner pair: its ISO date and its price
Expansion(r) ==
  [i \in DOMAIN r.items |->
     Obs(IsoTok(r.items[i].date.y, r.items[i].date.m, r.items[i].date.d),
         Num(r.items[i].price.k, r.items[i].price.r))]

\* the reader gets as far as row i of the file
Reached(f, i) == f.exists /\ f.hdr /\ \A h \in 1 .. i - 1 : f.rows[h].n >= 2

\* what load_existing_csv returned for the rows before row i
Before(f, i) == Len(load_existing_csv(File(SubSeq(f.rows, 1, i - 1))))

C9_SkipAndContinue ==
  (op = "load" /\ store.exists /\ store.hdr) =>
    \A i \in DOMAIN store.rows :
      CanonicalRow(store.rows[i]) =>
        \E j \in DOMAIN ret.loaded :
          ret.loaded[j] = Obs(store.rows[i].date, FloatVal(store.rows[i].price))

\* C10: scrape_eua2.main raises no exception, whatever the store file holds.
C10_MainNeverCrashes == pc /= "crashed"

\* C11: every observation load_existing_csv returns has a date of the form
\* YYYY-MM-DD that denotes a calendar date.
C11_CanonicalDates ==
  op = "load" =>
    \A i \in DOMAIN ret.loaded :
      /\ ret.loaded[i].date.form = "iso"
      /\ ValidYMD(ret.loaded[i].date.y, ret.loaded[i].date.m,
                  ret.loaded[i].date.d)

\* C12 as stated: with a writable destination save_to_csv returns normally
\* for every series, the empty one included.
C12_NeverRaises == op = "save" => ~ret.raised

\* C12: with a writable destination save_to_csv raises exactly when the
\* series is empty, and then leaves the store file as it was; for every
\* other series it returns normally.
C12_RaisesOnEmptyOnly ==
  op = "save" =>
    /\ ret.raised <=> data = << >>
    /\ ret.raised => store = pre

C12_Witness ==
  op = "save" /\ data = << >> /\ ret.raised /\ store = pre /\ store.exists

\* C13: while save_to_csv is writing, and after a write that failed, the
\* store file holds the complete content it had before the save.
C13_NoPartialWrites ==
  wr.st \in {"writing", "failed"} => store = pre

\* C14: when scrape_data yields no observation, the store file at the end
\* of a run of main is the store file the run started with.
C14_StoreUntouched ==
  (pc = "done" /\ data = << >>) => store = pre

\* C15: every row of the store file after a rewrite has a price that, read
\* back from its text, is above 0 and at most 1,000,000.
C15_WrittenPricesValid ==
  Rewrote =>
    \A i \in DOMAIN store.rows : ValidPrice(FloatVal(store.rows[i].price))

\* C16: after a rewrite the first line of the store file is the header and
\* every row has exactly two fields, a YYYY-MM-DD date and a price with two
\* decimals.
C16_FileFormat ==
  Rewrote =>
    /\ store.exists /\ store.hdr
    /\ \A i \in DOMAIN store.rows :
         /\ store.rows[i].n = 2
         /\ store.rows[i].date.form = "iso"
         /\ store.rows[i].price.form = "num"
         /\ store.rows[i].price.r % 10 = 0

\* C17: every observation the extractor accepted is in the store file after
\* save_to_csv has written it: its date has a row.
C17_AcceptedIsWritten ==
  (op = "save" /\ ~ret.raised) =>
    \A i \in DOMAIN data :
      \E j \in DOMAIN store.rows :
        DateOf(store.rows[j].date) = DateOf(data[i].date)

\* the two pairs of a list candidate carry a number of seconds and the same
\* number times 1000 as their dates
SecondsAndMillis(cand) ==
  /\ cand.kind = "list" /\ Len(cand.elems) = 2
  /\ \A i \in 1 .. 2 :
       /\ cand.elems[i].kind = "list" /\ Len(cand.elems[i].elems) = 2
       /\ cand.elems[i].elems[1].kind = "scalar"
       /\ cand.elems[i].elems[1].leaf.ty = "num"
  /\ LET t == cand.elems[1].elems[1].leaf.num
         ms == cand.elems[2].elems[1].leaf.num
     IN t.r % 1000 = 0 /\ ms = Num(t.k * 1000 + t.r \div 1000, 0)

\* C18: a number of seconds and the same number times 1000 as date tokens
\* give the same calendar date, and 1719792000 gives 2024-07-01.
C18_SameCalendarDate ==
  (op = "parse" /\ SecondsAndMillis(inp.cand)) =>
    /\ Len(data) = 2
    /\ data[1].date = data[2].date
    /\ inp.cand.elems[1] = SecondsPair => data[1].date = Iso(2024, 7, 1)

\* the observations of a sequence of lists of observations, in order
RECURSIVE Concat(_)
Concat(sqs) == IF sqs = << >> THEN << >> ELSE Head(sqs) \o Concat(Tail(sqs))

\* C19 as stated: the observations of a list candidate are the observations
\* _parse_json_data returns for each of its elements, in order.
C19_RecursesIntoElements ==
  (op = "parse" /\ inp.cand.kind = "list") =>
    data = Concat([i \in DOMAIN inp.cand.elems |->
                     _parse_json_data(inp.cand.elems[i], inp.tz)])

\* what _parse_data_item gives for one element: one observation or none
ItemObs(node, tz) ==
  IF _parse_data_item(ItemOf(node), tz).ok
  THEN << Obs(_parse_data_item(ItemOf(node), tz).date,
              _parse_data_item(ItemOf(node), tz).price) >>
  ELSE << >>

\* C19: the observations of a list candidate are, in order, the observation
\* _parse_data_item gives for each of its elements; an element for which it
\* gives none contributes nothing.
C19_ElementWise ==
  (op = "parse" /\ inp.cand.kind = "list") =>
    data = Concat([i \in DOMAIN inp.cand.elems |->
                     ItemObs(inp.cand.elems[i], inp.tz)])

C19_Witness ==
  /\ op = "parse"
  /\ inp.cand = List(<< Wrapped, IsoPair >>)
  /\ data = << Obs(Iso(2024, 1, 1), FloatVal(P(85, 500))) >>

\* a pair of a date text in a form strptime reads and a price the bound
\* admits
AcceptedPair(node) ==
  /\ node.kind = "list" /\ Len(node.elems) = 2
  /\ node.elems[1].kind = "scalar" /\ node.elems[2].kind = "scalar"
  /\ node.elems[1].leaf.ty = "str"
  /\ node.elems[1].leaf.date.form \in {"iso", "verbose"}
  /\ ValidYMD(node.elems[1].leaf.date.y, node.elems[1].leaf.date.m,
              node.elems[1].leaf.date.d)
  /\ \/ node.elems[2].leaf.ty = "num"
     \/ node.elems[2].leaf.ty = "str" /\ node.elems[2].leaf.price.form = "num"
  /\ ValidPrice(FloatVal(node.elems[2].leaf.price))

\* that date, that price
PairObs(node) ==
  Obs(Iso(node.elems[1].leaf.date.y, node.elems[1].leaf.date.m,
          node.elems[1].leaf.date.d),
      FloatVal(node.elems[2].leaf.price))

\* C20 as stated: a candidate that is itself an accepted pair yields exactly
\* one observation, that date and that price, from _parse_json_data.
C20_PairAsCandidate ==
  (op = "parse" /\ AcceptedPair(inp.cand)) => data = << PairObs(inp.cand) >>

\* C20: the accepted pairs that make up the list handed to _parse_json_data
\* yield exactly one observation each, that date and that price, in order;
\* an accepted pair handed to _parse_json_data by itself yields none.
C20_PairAsElement ==
  op = "parse" =>
    /\ AcceptedPair(inp.cand) => data = << >>
    /\ ( /\ inp.cand.kind = "list" /\ inp.cand.elems /= << >>
         /\ \A i \in DOMAIN inp.cand.elems :
              AcceptedPair(inp.cand.elems[i]) )
       => data = [i \in DOMAIN inp.cand.elems |->
                    PairObs(inp.cand.elems[i])]

C20_Witness ==
  /\ op = "parse"
  /\ inp.cand = List(<< TextPair >>)
  /\ data = << Obs(Iso(2024, 1, 2), FloatVal(P(86, 250))) >>

\* some alias of the list is a key of the record
HasAlias(fields, entries) ==
  \E i \in DOMAIN fields : HasKey(entries, fields[i])

\* the first alias, in list order, that is a key of the record
FirstPresent(fields, entries) ==
  fields[CHOOSE i \in DOMAIN fields :
           /\ HasKey(entries, fields[i])
           /\ \A j \in 1 .. i - 1 : ~HasKey(entries, fields[j])]

\* the pair of the values under the first date alias and the first price
\* alias present in a record
AliasPair(node) ==
  List(<< ValueAt(node.elems, FirstPresent(date_fields, node.elems)),
          ValueAt(node.elems, FirstPresent(price_fields, node.elems)) >>)

\* C21: a keyed record with a date alias and a price alias gives what the
\* pair of the values under the first date alias and the first price alias
\* present, in list order, gives: no later alias is consulted, and a
\* rejected first value means no observation.
C21_FirstAliasWins ==
  ( /\ op = "item" /\ inp.cand.kind = "dict"
    /\ HasAlias(date_fields, inp.cand.elems)
    /\ HasAlias(price_fields, inp.cand.elems) )
  => data = ItemObs(AliasPair(inp.cand), inp.tz)

C21_Witness ==
  /\ op = "item"
  /\ inp.cand = Dict(<< Entry("time", Scalar(DateStr(Iso(2024, 1, 2)))),
                        Entry("date", Scalar(DateStr(Iso(2024, 1, 3)))),
                        Entry("value", Scalar(Number(80, 0))),
                        Entry("price", Scalar(Number(90, 0))) >>)
  /\ data = << Obs(Iso(2024, 1, 3), FloatVal(P(90, 0))) >>

\* C22: _parse_data_item raises for no candidate; a candidate that is no
\* list and no record gives nothing; and in a list handed to
\* _parse_json_data every element that gives an observation alone has it in
\* the result, whatever the other elements are.
C22_ExtractorTotal ==
  /\ op = "item" => ~ret.raised
  /\ (op \in {"item", "parse"} /\ inp.cand.kind = "scalar") => data = << >>
  /\ (op = "parse" /\ inp.cand.kind = "list") =>
       /\ ~ret.raised
       /\ \A i \in DOMAIN inp.cand.elems :
            \A k \in DOMAIN ItemObs(inp.cand.elems[i], inp.tz) :
              \E j \in DOMAIN data :
                data[j] = ItemObs(inp.cand.elems[i], inp.tz)[k]

C22_Witness ==
  /\ op = "parse"
  /\ inp.cand = List(<< PairOf(Infinite, Number(85, 500)), IsoPair >>)
  /\ data = << Obs(Iso(2024, 1, 1), FloatVal(P(85, 500))) >>

\* a pair of scalars whose date is a text
TextDatePair(node) ==
  /\ node.kind = "list" /\ Len(node.elems) = 2
  /\ node.elems[1].kind = "scalar" /\ node.elems[2].kind = "scalar"
  /\ node.elems[1].leaf.ty = "str"

\* C23: a pair whose price text carries thousands separators or a currency
\* symbol and whose value is within the bound gives the observation of that
\* value.
C23_DecoratedPriceAccepted ==
  ( /\ op = "item" /\ TextDatePair(inp.cand)
    /\ StrpIso(inp.cand.elems[1].leaf.date).ok
    /\ inp.cand.elems[2].leaf.ty = "str"
    /\ inp.cand.elems[2].leaf.price.form \in {"sep", "cur"}
    /\ ValidPrice(FloatVal(inp.cand.elems[2].leaf.price)) )
  => data = << Obs(inp.cand.elems[1].leaf.date,
                   FloatVal(inp.cand.elems[2].leaf.price)) >>

\* the date a text denotes when the formats are tried in the stated order
\* (0: none): a slash text month-first when that is a date, else day-first
OrderedDate(t) ==
  CASE t.form \in {"iso", "verbose", "isotime"} /\ ValidYMD(t.y, t.m, t.d)
         -> t.y * 10000 + t.m * 100 + t.d
    [] t.form = "slash" /\ ValidYMD(t.y, t.m, t.d)
         -> t.y * 10000 + t.m * 100 + t.d
    [] t.form = "slash" /\ ~ValidYMD(t.y, t.m, t.d) /\ ValidYMD(t.y, t.d, t.m)
         -> t.y * 10000 + t.d * 100 + t.m
    [] OTHER -> 0

\* C24: a pair with a date text of one of the five formats and an accepted
\* price gives the date the first matching format reads, the formats taken
\* in the order ISO, verbose, ISO with time, month/day/year, day/month/year;
\* a text none of them reads as a calendar date gives nothing.
C24_FormatOrder ==
  ( /\ op = "item" /\ TextDatePair(inp.cand)
    /\ inp.cand.elems[1].leaf.date.form
         \in {"iso", "verbose", "isotime", "slash"}
    /\ inp.cand.elems[2].leaf = Number(85, 500) )
  => IF OrderedDate(inp.cand.elems[1].leaf.date) = 0 THEN data = << >>
     ELSE /\ Len(data) = 1
          /\ data[1].date.form = "iso"
          /\ DateOf(data[1].date) = OrderedDate(inp.cand.elems[1].leaf.date)

C24_Witness ==
  /\ op = "item"
  /\ inp.cand = PairOf(DateStr(Slash(1, 2, 2024)), Number(85, 500))
  /\ data = << Obs(Iso(2024, 1, 2), FloatVal(P(85, 500))) >>

\* the (calendar date, price) pairs of a list of observations
ObsSet(obs) ==
  { << DateOf(obs[i].date), obs[i].price >> : i \in DOMAIN obs }

\* C25: for every store file, load_data returns, and with the same set of
\* (calendar date, price) observations that load_existing_csv returns.
C25_LoadersAgree ==
  (op = "viz" /\ store.exists) =>
    /\ ~ret.raised
    /\ ObsSet(ret.loaded) = ObsSet(load_existing_csv(store))

\* C26: the number cleanup_csv returns after it has rewritten the store
\* file is the number of rows of the file.
C26_CountIsRowsWritten ==
  (op = "cleanup" /\ ret.count > 0) => ret.count = Len(store.rows)

\* an inner pair of a verbose timestamp that is a date and a price that is a
\* number
GoodPair(it) ==
  /\ it.islist /\ it.len = 2
  /\ it.date.form = "verbose" /\ ValidYMD(it.date.y, it.date.m, it.date.d)
  /\ it.price.form = "num"

\* C27: of every list-literal row that load_existing_csv reads, every inner
\* pair that normalizes is returned, whatever the other pairs of the row
\* are.
C27_PairsIndependent ==
  op = "load" =>
    \A i \in DOMAIN store.rows :
      (Reached(store, i) /\ store.rows[i].n = 2
       /\ store.rows[i].date.form = "list") =>
        \A k \in DOMAIN store.rows[i].items :
          GoodPair(store.rows[i].items[k]) =>
            \E j \in DOMAIN ret.loaded :
              ret.loaded[j] =
                Obs(IsoTok(store.rows[i].items[k].date.y,
                           store.rows[i].items[k].date.m,
                           store.rows[i].items[k].date.d),
                    FloatVal(store.rows[i].items[k].price))

\* the dates for which the batch holds two different prices
Contested(obs) ==
  { dn \in DatesOf(obs) : Cardinality(PricesOf(obs, dn)) > 1 }

\* the price texts the rows of file f have for date dn
RowPrices(f, dn) == { f.rows[i].price : i \in RowsOf(f, dn) }

\* C28: for a date the batch holds two prices for and the store has no
\* observation of, the price a merge run writes is the price the same call
\* writes when there is no store file.
C28_ChoiceIndependentOfStore ==
  MergeRun =>
    \A dn \in Contested(data) \ DatesOf(ret.loaded) :
      RowPrices(store, dn) = RowPrices(SavedFile(NoFile, data, TRUE), dn)

\* C29: after scrape_data, self.data_points is the list the call returned;
\* and save_to_csv() without an argument after a scrape_data that returned
\* nothing writes nothing.
C29_PointsAreLastScrape ==
  /\ op = "scrape" => data_points = data
  /\ (op = "save_points" /\ data = << >>) => (ret.raised /\ store = pre)

\* C30: a tooltip text 'Date: <YYYY-MM-DD>, Price: <p>' or
\* '<YYYY-MM-DD>: €<p>' gives that date with the price <p>.
C30_TooltipPrice ==
  ( /\ op = "tooltip"
    /\ inp.cand.form \in {"labelled", "euro"}
    /\ inp.cand.date.style = "ymd-" )
  => data = << Obs(IsoTok(inp.cand.date.y, inp.cand.date.m, inp.cand.date.d),
                   FloatVal(inp.cand.price)) >>

====
